---- MODULE Spec2Model ----
(***************************************************************************)
(* Model of the two request handlers of server/routes.ts                   *)
(* (GET /api/weather and GET /api/distance), of the synthesizers they fall *)
(* back to and of the zod schemas of shared/schema.ts.                     *)
(*                                                                         *)
(* Units.  Instants and UTC offsets are counted in hours (the code counts  *)
(* epoch seconds and milliseconds; the factors 1000 and 3600 are a change  *)
(* of unit).  Temperatures are counted in hundredths of a degree, so that  *)
(* rounding to one decimal is a real operation.  Coordinates are counted   *)
(* in thousandths of a degree, distances in metres.                        *)
(***************************************************************************)
EXTENDS Integers, Sequences, FiniteSets, TLC

VARIABLES
    WEATHER_API_KEY,   \* routes.ts:8, fixed when the process starts
    GOOGLE_API_KEY,    \* routes.ts:9, fixed when the process starts
    hostZone,          \* the time zone of the host process (TZ), read by Date
    route,             \* the endpoint of the current request
    pc,                \* where the handler of the current request stands
    query,             \* req.query of the current request
    coords,            \* the validated coordinates the handler holds
    forecastCall,      \* axios.get(forecastUrl): none, pending, fulfilled, rejected
    currentCall,       \* axios.get(currentWeatherUrl)
    matrixCall,        \* axios.get(url) of the distance handler
    allState,          \* the promise of Promise.all([...]) (routes.ts:210)
    apiError,          \* the reason the awaited promise rejected with
    upstream,          \* the data the awaited promise resolved with
    calls,             \* upstream calls issued for the current request
    responses,         \* the responses sent for the current request
    input,             \* the arguments of a function studied on its own
    output             \* what the function returned for them

vars == <<WEATHER_API_KEY, GOOGLE_API_KEY, hostZone, route, pc, query, coords,
          forecastCall, currentCall, matrixCall, allState, apiError, upstream,
          calls, responses, input, output>>

----------------------------------------------------------------------------
(* Bounds of the model *)

\* the longest forecast list the upstream is taken to return
MaxSamples == 2

----------------------------------------------------------------------------
(* JavaScript values *)

Num(n) == [t |-> "num", v |-> n]
NaN == [t |-> "nan", v |-> 0]
PosInfinity == [t |-> "inf", v |-> 0]
NegInfinity == [t |-> "-inf", v |-> 0]
Undefined == [t |-> "undefined", v |-> 0]

\* a < b on numbers; undefined converts to NaN and NaN compares false
JsLt(a, b) ==
    CASE a.t \in {"nan", "undefined"} \/ b.t \in {"nan", "undefined"} -> FALSE
      [] a.t = "num" /\ b.t = "num" -> a.v < b.v
      [] a.t = "-inf" -> b.t # "-inf"
      [] b.t = "inf" -> a.t # "inf"
      [] OTHER -> FALSE

JsGt(a, b) == JsLt(b, a)

\* a <= b on numbers
JsLe(a, b) ==
    CASE a.t \in {"nan", "undefined"} \/ b.t \in {"nan", "undefined"} -> FALSE
      [] OTHER -> ~JsLt(b, a)

\* Math.round(x * 10) / 10 on hundredths: half rounds towards +Infinity
MathRound1(x) ==
    IF x.t = "num" THEN Num(((x.v + 5) \div 10) * 10) ELSE x

\* x + d for a number d given in hundredths
JsAdd(x, d) ==
    IF x.t = "num" THEN Num(x.v + d)
    ELSE IF x.t = "undefined" THEN NaN ELSE x

\* an optional value: <<>> when absent, <<v>> when present
Opt(S) == {<<>>} \cup {<<s>> : s \in S}

\* StringToNumber on the strings the requests carry (thousandths)
StringToNumber(s) ==
    CASE s = "" -> Num(0)
      [] s = "0" -> Num(0)
      [] s = "0.03" -> Num(30)
      [] s = "1" -> Num(1000)
      [] s = "10" -> Num(10000)
      [] s = "-10" -> Num(-10000)
      [] s = "Infinity" -> PosInfinity
      [] s = "-Infinity" -> NegInfinity
      [] OTHER -> NaN

\* Number(v) of a query value: Number(undefined) is NaN
JsNumber(v) == IF v = <<>> THEN NaN ELSE StringToNumber(v[1])

\* z.number(): a number that is not NaN
ZNumber(x) == x.t \in {"num", "inf", "-inf"}

----------------------------------------------------------------------------
(* Configuration *)

EnvValues == Opt({"", "default_key", "live-key"})

\* process.env.X || "default_key"
EnvOrDefault(e) == IF e = <<>> \/ e = <<"">> THEN "default_key" ELSE e[1]

\* A host time zone: its standard offset and, when it observes daylight
\* saving time, the instant (UTC) from which the offset is one hour more.
HoursPerDay == 24
Utc == [std |-> 0, dst |-> FALSE, dstAt |-> 0]
Tokyo == [std |-> 9, dst |-> FALSE, dstAt |-> 0]
London == [std |-> 0, dst |-> TRUE, dstAt |-> 73]
HostZones == {Utc, Tokyo, London}

----------------------------------------------------------------------------
(* Date, as the weather handler uses it *)

\* the offset of the host zone in effect at the instant t
LocalTZA(z, t) == IF z.dst /\ t >= z.dstAt THEN z.std + 1 ELSE z.std

\* the instant at which the host's clock reads L
UtcOfLocal(z, L) ==
    IF z.dst /\ L - z.std >= z.dstAt THEN L - (z.std + 1) ELSE L - z.std

\* d.setHours(0, 0, 0, 0): midnight of d's day on the host's clock
SetHoursMidnight(z, t) ==
    UtcOfLocal(z, ((t + LocalTZA(z, t)) \div HoursPerDay) * HoursPerDay)

\* d.setDate(d.getDate() + i): the same reading of the host's clock, i days on
SetDatePlus(z, t, i) == UtcOfLocal(z, t + LocalTZA(z, t) + i * HoursPerDay)

\* d.toISOString().split('T')[0]: the UTC calendar date, as a day number
DateStr(t) == t \div HoursPerDay

----------------------------------------------------------------------------
(* What the weather upstream may answer *)

\* an entry of the upstream's weather arrays: {id, icon, description}
ClearSky == [id |-> 800, icon |-> "01d", description |-> "clear sky"]
LightRain == [id |-> 500, icon |-> "10d", description |-> "light rain"]
Conditions == {ClearSky, LightRain}

\* the reference day of the model is day 2: hours 48 to 71
Instants == {50, 60}
SampleInstants == {40, 62, 100}
SampleTemps == {Num(6012), Num(7255)}

\* one entry of the forecast list: {dt, main: {temp}, weather: [..]}; the
\* last one is an entry whose main has no temp
Samples ==
    [dt : SampleInstants, temp : SampleTemps, weather : {<<c>> : c \in Conditions}]
      \cup {[dt |-> 62, temp |-> Undefined, weather |-> <<ClearSky>>]}

ForecastLists == UNION {[1..n -> Samples] : n \in 0..MaxSamples}

\* the data of the forecast answer: {list}, the list possibly missing
ForecastPayloads == [list : Opt(ForecastLists)]

\* the data of the current-conditions answer: {timezone, main: {temp}, weather}
CurrentData(timezone, main, weather) ==
    [timezone |-> timezone, main |-> main, weather |-> weather]

\* well-formed answers with and without an offset, one with no condition,
\* one whose main has no temp and one with no main
CurrentPayloads ==
    {CurrentData(<<>>, <<[temp |-> Num(6834)]>>, <<LightRain>>),
     CurrentData(<<9>>, <<[temp |-> Num(6834)]>>, <<LightRain>>),
     CurrentData(<<9>>, <<[temp |-> Num(6834)]>>, <<>>),
     CurrentData(<<>>, <<[temp |-> Undefined]>>, <<LightRain>>),
     CurrentData(<<9>>, <<>>, <<LightRain>>)}

\* what axios rejects with: error.response (with its status and data),
\* else error.request, else neither
HttpError(status, msg) ==
    [response |-> <<[status |-> status, error_message |-> msg]>>, request |-> TRUE,
     name |-> "AxiosError", message |-> "Request failed with status code"]
NoResponse ==
    [response |-> <<>>, request |-> TRUE,
     name |-> "AxiosError", message |-> "Network Error"]
SetupError ==
    [response |-> <<>>, request |-> FALSE,
     name |-> "AxiosError", message |-> "Invalid URL"]
\* an exception thrown by the handler's own code (TypeError, ZodError, Error)
Thrown(name, message) ==
    [response |-> <<>>, request |-> FALSE, name |-> name, message |-> message]
NoError == Thrown("", "")

WeatherRejections == {HttpError(401, <<>>), NoResponse, SetupError}

----------------------------------------------------------------------------
(* The day buckets of the weather handler (routes.ts:218-310) *)

EmptyBucket(dateStr) ==
    [date |-> dateStr,
     temp |-> [min |-> PosInfinity, max |-> NegInfinity],
     weather |-> <<>>,
     weatherCounts |-> <<>>]

HasKey(fs, dateStr) == \E j \in 1..Len(fs) : fs[j].date = dateStr
KeyIndex(fs, dateStr) == CHOOSE j \in 1..Len(fs) : fs[j].date = dateStr

\* forecasts[dateStr] = {...}: a new key goes last, a known key keeps its place
PutBucket(fs, dateStr) ==
    IF HasKey(fs, dateStr)
    THEN [fs EXCEPT ![KeyIndex(fs, dateStr)] = EmptyBucket(dateStr)]
    ELSE Append(fs, EmptyBucket(dateStr))

\* const today = new Date(locationTime); today.setHours(0, 0, 0, 0)
Today(z, utcNow, timezoneOffset) == SetHoursMidnight(z, utcNow + timezoneOffset)

RECURSIVE InitDays(_, _, _, _)
\* for (let i = 0; i < 4; i++) forecasts[dateStr of today + i] = empty
InitDays(z, today, i, fs) ==
    IF i >= 4 THEN fs
    ELSE InitDays(z, today, i + 1, PutBucket(fs, DateStr(SetDatePlus(z, today, i))))

\* weatherCounts[icon]++, the icons kept in the order they were first seen
CountIcon(counts, icon) ==
    IF \E j \in 1..Len(counts) : counts[j].icon = icon
    THEN [j \in 1..Len(counts) |->
            IF counts[j].icon = icon
            THEN [counts[j] EXCEPT !.n = @ + 1] ELSE counts[j]]
    ELSE Append(counts, [icon |-> icon, n |-> 1])

\* the body of forecastList.forEach for one item
AddSample(fs, item, timezoneOffset) ==
    LET dateStr == DateStr(item.dt + timezoneOffset) IN
    IF ~HasKey(fs, dateStr) THEN fs
    ELSE
      LET j == KeyIndex(fs, dateStr)
          b == fs[j]
          newMin == IF JsLt(item.temp, b.temp.min) THEN item.temp ELSE b.temp.min
          newMax == IF JsGt(item.temp, b.temp.max) THEN item.temp ELSE b.temp.max
      IN [fs EXCEPT ![j] =
            [date |-> b.date,
             temp |-> [min |-> newMin, max |-> newMax],
             weather |-> Append(b.weather, item.weather[1]),
             weatherCounts |-> CountIcon(b.weatherCounts, item.weather[1].icon)]]

RECURSIVE ForEachSample(_, _, _, _)
ForEachSample(fs, list, k, timezoneOffset) ==
    IF k > Len(list) THEN fs
    ELSE ForEachSample(AddSample(fs, list[k], timezoneOffset), list, k + 1,
                       timezoneOffset)

RECURSIVE MostCommonIconLastWins(_, _, _, _)
\* (mutant) the comparison is >=: of the icons seen equally often the last wins
MostCommonIconLastWins(counts, k, icon, maxCount) ==
    IF k > Len(counts) THEN icon
    ELSE IF counts[k].n >= maxCount
         THEN MostCommonIconLastWins(counts, k + 1, counts[k].icon, counts[k].n)
         ELSE MostCommonIconLastWins(counts, k + 1, icon, maxCount)

RECURSIVE MostCommonIcon(_, _, _, _)
\* the loop over Object.keys(weatherCounts): a later icon wins only with more
MostCommonIcon(counts, k, icon, maxCount) ==
    IF k > Len(counts) THEN icon
    ELSE IF counts[k].n > maxCount
         THEN MostCommonIcon(counts, k + 1, counts[k].icon, counts[k].n)
         ELSE MostCommonIcon(counts, k + 1, icon, maxCount)

\* weather.find(w => w.icon === mostCommonIcon) || weather[0], in an array
WeatherWithIcon(weather, icon) ==
    IF \E j \in 1..Len(weather) : weather[j].icon = icon
    THEN <<weather[CHOOSE j \in 1..Len(weather) :
                     /\ weather[j].icon = icon
                     /\ \A i \in 1..(j - 1) : weather[i].icon # icon]>>
    ELSE IF Len(weather) > 0 THEN <<weather[1]>> ELSE <<Undefined>>

\* one pass of Object.keys(forecasts).forEach: pick the condition, round,
\* and fill a day that got no temperature from the current conditions
FinishDay(b, current) ==
    LET picked == WeatherWithIcon(b.weather, MostCommonIcon(b.weatherCounts, 1, "", 0))
        rmin == MathRound1(b.temp.min)
        rmax == MathRound1(b.temp.max)
    IN IF rmin = PosInfinity
       THEN [temp |-> [min |-> MathRound1(JsAdd(current.main[1].temp, -500)),
                       max |-> MathRound1(JsAdd(current.main[1].temp, 500))],
             weather |-> current.weather]
       ELSE [temp |-> [min |-> rmin, max |-> rmax], weather |-> picked]

----------------------------------------------------------------------------
(* shared/schema.ts *)

\* (mutant) a schema that does not reject NaN
locationSchemaAcceptsNaN(loc) == TRUE

\* locationSchema.parse({lat, lng}): both are numbers and not NaN
locationSchema(loc) == ZNumber(loc.lat) /\ ZNumber(loc.lng)

\* an object with a string icon and a string description
IsWeatherDescription(w) == {"icon", "description"} \subseteq DOMAIN w

\* weatherResponseSchema accepts the value
weatherResponseSchema(d) ==
    /\ ZNumber(d.current.temp)
    /\ \A j \in 1..Len(d.current.weather) : IsWeatherDescription(d.current.weather[j])
    /\ \A k \in 1..Len(d.daily) :
         /\ ZNumber(d.daily[k].temp.min)
         /\ ZNumber(d.daily[k].temp.max)
         /\ \A j \in 1..Len(d.daily[k].weather) :
              IsWeatherDescription(d.daily[k].weather[j])

\* what parse returns: the keys of the schema and no others
StripWeatherList(ws) ==
    [j \in 1..Len(ws) |-> [icon |-> ws[j].icon, description |-> ws[j].description]]

ParsedWeather(d) ==
    [current |-> [temp |-> d.current.temp,
                  weather |-> StripWeatherList(d.current.weather)],
     daily |-> [k \in 1..Len(d.daily) |->
                  [temp |-> d.daily[k].temp,
                   weather |-> StripWeatherList(d.daily[k].weather)]],
     isMockData |-> <<>>]

----------------------------------------------------------------------------
(* generateMockWeatherData (routes.ts:56-114) *)

\* Math.random() * 2, in hundredths; the eight draws of one call
RandomDraws ==
    {[i \in 1..8 |-> 0], [i \in 1..8 |-> 199],
     [i \in 1..8 |-> IF i % 2 = 1 THEN 0 ELSE 199],
     [i \in 1..8 |-> IF i % 2 = 1 THEN 199 ELSE 0]}

\* (Math.sin(lat * lng * 0.01) * 10).toFixed(1), in hundredths, for finite
\* coordinates: sin(0) = 0, sin(1) = 0.8415, sin(1.5708) = 1.0000,
\* sin(0.5236) = 0.5000, and sin(-x) = -sin(x)
TempVariation(lat, lng) ==
    CASE lat.v * lng.v = 0 -> 0
      [] lat.v * lng.v = 10000 * 10000 -> 840
      [] lat.v * lng.v = -(10000 * 10000) -> -840
      [] lat.v * lng.v = 157080 * 1000 -> 1000
      [] lat.v * lng.v = -(157080 * 1000) -> -1000
      [] lat.v * lng.v = 52360 * 1000 -> 500
      [] lat.v * lng.v = -(52360 * 1000) -> -500

\* x.toFixed(1) read back by parseFloat, on hundredths
ToFixed1(x) == ((x + 5) \div 10) * 10

BaseTemp == 2000

\* Math.sin of an infinite product is NaN, and NaN stays NaN through
\* toFixed, parseFloat and the sum
MockCurrentTemp(lat, lng) ==
    IF lat.t # "num" \/ lng.t # "num" THEN NaN
    ELSE Num(ToFixed1(BaseTemp + TempVariation(lat, lng)))

MockCondition(currentTemp) ==
    IF JsLt(currentTemp, Num(1500)) THEN [icon |-> "03d", description |-> "clouds"]
    ELSE IF JsGt(currentTemp, Num(2500)) THEN [icon |-> "01d", description |-> "clear"]
    ELSE [icon |-> "02d", description |-> "few clouds"]

\* (mutant) the current reading takes part of the first random draw
generateMockWeatherDataRandomCurrent(lat, lng, rnd) ==
    LET base == MockCurrentTemp(lat, lng)
        currentTemp == IF base.t = "num" THEN Num(base.v + (rnd[1] \div 10) * 10)
                       ELSE base
        cond == MockCondition(currentTemp)
    IN [current |-> [temp |-> currentTemp, weather |-> <<cond>>],
        daily |-> [k \in 1..4 |-> [temp |-> [min |-> currentTemp, max |-> currentTemp],
                                   weather |-> <<cond>>]],
        isMockData |-> <<TRUE>>]

generateMockWeatherData(lat, lng, rnd) ==
    LET currentTemp == MockCurrentTemp(lat, lng)
        cond == MockCondition(currentTemp)
        day(index) ==
          LET dayVariation == index * 50
              dayHigh == currentTemp.v + 300 + dayVariation + rnd[2 * index + 1]
              dayLow == currentTemp.v - 500 + dayVariation - rnd[2 * index + 2]
          IN [temp |-> IF currentTemp.t # "num" THEN [min |-> NaN, max |-> NaN]
                       ELSE [min |-> Num(ToFixed1(dayLow)),
                             max |-> Num(ToFixed1(dayHigh))],
              weather |-> <<cond>>]
    IN [current |-> [temp |-> currentTemp, weather |-> <<cond>>],
        daily |-> [k \in 1..4 |-> day(k - 1)],
        isMockData |-> <<TRUE>>]

----------------------------------------------------------------------------
(* GET /api/weather (routes.ts:184-368) *)

Ok200(body, by) == [status |-> 200, body |-> body, by |-> by]
Err400(msg) == [status |-> 400, body |-> [error |-> msg], by |-> "catch"]

\* (mutant) the placeholder passes for a key
KeyMissingOnlyEmpty(key) == key = ""

\* !WEATHER_API_KEY || WEATHER_API_KEY === "default_key"
KeyMissing(key) == key = "" \/ key = "default_key"

\* req.query -> {lat: Number(req.query.lat), lng: Number(req.query.lng)}
WeatherLocation(q) == [lat |-> JsNumber(q.lat), lng |-> JsNumber(q.lng)]

\* The handler up to its await (routes.ts:185-213): the error it throws to
\* the outer catch, or NoError when it goes on to issue the two calls.
WeatherGuard(q, key) ==
    IF ~locationSchema(WeatherLocation(q))
    THEN Thrown("ZodError", "Invalid input")
    ELSE IF KeyMissing(key)
    THEN Thrown("Error", "OpenWeatherMap API key is not configured")
    ELSE NoError

\* (mutant) the outer catch answers 500
OuterCatch500(error) ==
    [status |-> 500, body |-> [error |-> error.message], by |-> "catch"]

\* the outer catch of both handlers (routes.ts:358-367, 438-449)
OuterCatch(error) ==
    IF error.name = "ZodError" THEN Err400("Invalid coordinates format")
    ELSE Err400(error.message)

\* routes.ts:218-319: the value assembled from the two answers
TransformedData(z, forecastData, currentData, utcNow) ==
    LET forecastList == IF forecastData.list = <<>> THEN <<>> ELSE forecastData.list[1]
        timezoneOffset ==
          IF currentData.timezone = <<>> THEN 0 ELSE currentData.timezone[1]
        today == Today(z, utcNow, timezoneOffset)
        initial == InitDays(z, today, 0, <<>>)
        forecasts == ForEachSample(initial, forecastList, 1, timezoneOffset)
    IN [current |-> [temp |-> currentData.main[1].temp,
                     weather |-> currentData.weather],
        daily |-> [k \in 1..Len(forecasts) |-> FinishDay(forecasts[k], currentData)]]

\* (mutant) a failure without a response is passed on to the outer catch
WeatherCatchPassesOn(error, loc, rnd) ==
    IF error.response # <<>>
    THEN Ok200(generateMockWeatherData(loc.lat, loc.lng, rnd), "generateMockWeatherData")
    ELSE OuterCatch(error)

\* the inner catch (routes.ts:326-357): every branch answers with mock data
WeatherCatch(error, loc, rnd) ==
    IF error.response # <<>>
    THEN Ok200(generateMockWeatherData(loc.lat, loc.lng, rnd), "generateMockWeatherData")
    ELSE IF error.request
    THEN Ok200(generateMockWeatherData(loc.lat, loc.lng, rnd), "generateMockWeatherData")
    ELSE Ok200(generateMockWeatherData(loc.lat, loc.lng, rnd), "generateMockWeatherData")

\* routes.ts:215-322 once both answers are in: what the try block throws,
\* if anything
WeatherTryError(z, forecastData, currentData, utcNow) ==
    IF currentData.main = <<>>
    THEN Thrown("TypeError", "Cannot read properties of undefined")
    ELSE IF ~weatherResponseSchema(TransformedData(z, forecastData, currentData, utcNow))
    THEN Thrown("ZodError", "Invalid input")
    ELSE NoError

\* routes.ts:322-325: res.json(weather)
WeatherTry(z, forecastData, currentData, utcNow) ==
    Ok200(ParsedWeather(TransformedData(z, forecastData, currentData, utcNow)),
          "upstream")

----------------------------------------------------------------------------
(* What the routing upstream may answer *)

\* the longest rows array the upstream is taken to return
MaxRows == 1

Duration(text, value) == [text |-> text, value |-> Num(value)]

\* {status, duration?, error_message?}
Element(status, duration, msg) ==
    [status |-> status, duration |-> duration, error_message |-> msg]

ElementOk == Element("OK", <<Duration("1 hour 30 mins", 5400)>>, <<>>)
ElementZero == Element("ZERO_RESULTS", <<>>, <<>>)
ElementNotFound == Element("NOT_FOUND", <<>>, <<"Origin not found">>)
ElementNoDuration == Element("OK", <<>>, <<>>)
Elements == {ElementOk, ElementZero, ElementNotFound, ElementNoDuration}

Rows ==
    {[elements |-> <<>>]} \cup {[elements |-> <<e>>] : e \in Elements}
      \cup {[elements |-> <<ElementOk, ElementZero>>],
            [elements |-> <<ElementZero, ElementOk>>]}

RowLists == UNION {[1..n -> Rows] : n \in 0..MaxRows}

\* the data of a 2xx answer: {status, rows, ...}; rows may be missing, and
\* keys the schema does not know may be there
DistancePayloads ==
    [status : {"OK", "REQUEST_DENIED"}, rows : Opt(RowLists), isMockData : Opt({TRUE})]

DistanceRejections ==
    {HttpError(401, <<>>), HttpError(403, <<"The provided API key is invalid">>),
     HttpError(429, <<>>), HttpError(500, <<"Internal error">>),
     NoResponse, SetupError}

----------------------------------------------------------------------------
(* generateMockDistanceData (routes.ts:123-181) *)

\* distance * routeFactor in metres: the haversine distance (R = 6371 km)
\* times 1.3, for the coordinates the requests carry; NaN for a NaN
AdjustedDistance(origin, destination) ==
    IF \E x \in {origin.lat, origin.lng, destination.lat, destination.lng} : x.t # "num"
    THEN NaN
    ELSE LET dLat == destination.lat.v - origin.lat.v
             dLng == destination.lng.v - origin.lng.v
         IN CASE origin.lat.v = 0 /\ dLat = 0 /\ dLng = 0 -> Num(0)
              [] origin.lat.v = 0 /\ dLat = 0 /\ dLng = 30 -> Num(4337)
              [] origin.lat.v = 0 /\ dLat = 0 /\ dLng = 1000 -> Num(144553)
              [] origin.lat.v = 0 /\ dLat = 30 /\ dLng = 0 -> Num(4337)
              [] origin.lat.v = 0 /\ dLat = 30 /\ dLng = 30 -> Num(6133)
              [] origin.lat.v = 0 /\ dLat = 30 /\ dLng = 1000 -> Num(144618)
              [] origin.lat.v = 0 /\ dLat = 1000 /\ dLng = 0 -> Num(144553)
              [] origin.lat.v = 0 /\ dLat = 1000 /\ dLng = 30 -> Num(144618)
              [] origin.lat.v = 0 /\ dLat = 1000 /\ dLng = 1000 -> Num(204424)

\* (mutant) the tiers include their upper limits
AverageSpeedInclusive(adjustedDistance) ==
    IF JsLe(adjustedDistance, Num(5000)) THEN 30
    ELSE IF JsLe(adjustedDistance, Num(20000)) THEN 60
    ELSE 100

\* the speed tier, km/h; every comparison with NaN is false
AverageSpeed(adjustedDistance) ==
    IF JsLt(adjustedDistance, Num(5000)) THEN 30
    ELSE IF JsLt(adjustedDistance, Num(20000)) THEN 60
    ELSE 100

\* Math.round((adjustedDistance / averageSpeed) * 60)
TravelTimeMinutes(adjustedDistance) ==
    LET averageSpeed == AverageSpeed(adjustedDistance) IN
    IF adjustedDistance.t # "num" THEN NaN
    ELSE Num((adjustedDistance.v * 60 + averageSpeed * 500) \div (averageSpeed * 1000))

\* the template literals of routes.ts:157-167
TravelTimeText(travelTimeMinutes) ==
    IF travelTimeMinutes.t # "num" THEN "NaN hours NaN mins"
    ELSE LET m == travelTimeMinutes.v
             hours == m \div 60
             mins == m % 60
             unit == IF hours = 1 THEN "hour" ELSE "hours"
         IN IF m < 60 THEN ToString(m) \o " mins"
            ELSE IF mins = 0 THEN ToString(hours) \o " " \o unit
            ELSE ToString(hours) \o " " \o unit \o " " \o ToString(mins) \o " mins"

generateMockDistanceData(origin, destination) ==
    LET travelTimeMinutes == TravelTimeMinutes(AdjustedDistance(origin, destination))
        seconds == IF travelTimeMinutes.t = "num"
                   THEN Num(travelTimeMinutes.v * 60) ELSE NaN
    IN [rows |-> <<[elements |->
                     <<[status |-> "OK",
                        duration |-> <<[text |-> TravelTimeText(travelTimeMinutes),
                                        value |-> seconds]>>,
                        error_message |-> <<>>]>>]>>,
        isMockData |-> <<TRUE>>]

----------------------------------------------------------------------------
(* GET /api/distance (routes.ts:370-451) *)

\* querySchema accepts req.query: the four values are strings
querySchema(q) ==
    /\ q.origin.lat # <<>> /\ q.origin.lng # <<>>
    /\ q.destination.lat # <<>> /\ q.destination.lng # <<>>

\* z.string().transform(val => Number(val)): the result is not checked
DistanceLocations(q) ==
    [origin |-> [lat |-> StringToNumber(q.origin.lat[1]),
                 lng |-> StringToNumber(q.origin.lng[1])],
     destination |-> [lat |-> StringToNumber(q.destination.lat[1]),
                      lng |-> StringToNumber(q.destination.lng[1])]]

\* The handler up to its await (routes.ts:371-397): the error it throws to
\* the outer catch, or NoError when it goes on to issue the call.
DistanceGuard(q, key) ==
    IF KeyMissing(key)
    THEN Thrown("Error", "Google Maps API key is not configured")
    ELSE IF ~querySchema(q)
    THEN Thrown("ZodError", "Required")
    ELSE NoError

\* distanceResponseSchema accepts the data: rows is an array of rows
distanceResponseSchema(data) == data.rows # <<>>

\* (mutant) parse keeps the keys the schema does not know
ParsedDistanceKeepsKeys(data) ==
    [rows |-> data.rows[1], isMockData |-> data.isMockData]

\* what parse returns: the keys of the schema and no others
ParsedDistance(data) == [rows |-> data.rows[1], isMockData |-> <<>>]

\* (mutant) the element is not looked at
DistanceTryErrorSkipsElement(data) ==
    IF data.status # "OK"
    THEN Thrown("Error", "Distance Matrix API error: " \o data.status)
    ELSE IF ~distanceResponseSchema(data)
    THEN Thrown("ZodError", "Required")
    ELSE NoError

\* (mutant) an element without duration is let through
DistanceTryErrorIgnoresDuration(data) ==
    IF data.status # "OK"
    THEN Thrown("Error", "Distance Matrix API error: " \o data.status)
    ELSE IF ~distanceResponseSchema(data)
    THEN Thrown("ZodError", "Required")
    ELSE LET rows == data.rows[1]
             noElement == Len(rows) = 0 \/ Len(rows[1].elements) = 0
         IN IF noElement
            THEN Thrown("Error", "Could not calculate travel time")
            ELSE IF rows[1].elements[1].status # "OK"
            THEN Thrown("Error", "Could not calculate travel time")
            ELSE NoError

\* routes.ts:400-411: what the try block throws on a 2xx answer, if anything
DistanceTryError(data) ==
    IF data.status # "OK"
    THEN Thrown("Error", "Distance Matrix API error: " \o data.status)
    ELSE IF ~distanceResponseSchema(data)
    THEN Thrown("ZodError", "Required")
    ELSE LET rows == data.rows[1]
             noElement == Len(rows) = 0 \/ Len(rows[1].elements) = 0
         IN IF noElement
            THEN Thrown("Error", "Could not calculate travel time")
            ELSE LET element == rows[1].elements[1] IN
                 IF element.status # "OK" \/ element.duration = <<>>
                 THEN IF element.error_message # <<>>
                      THEN Thrown("Error", element.error_message[1])
                      ELSE Thrown("Error", "Could not calculate travel time")
                 ELSE NoError

\* (mutant) only 401 is taken for a key problem
DistanceCatchOnly401(error, loc) ==
    IF error.response # <<>> /\ error.response[1].status = 401
    THEN Ok200(generateMockDistanceData(loc.origin, loc.destination),
               "generateMockDistanceData")
    ELSE OuterCatch(error)

\* (mutant) a failure without an HTTP response is answered with mock data too
DistanceCatchMockOnNetworkError(error, loc) ==
    IF error.response # <<>>
    THEN LET status == error.response[1].status
             msg == IF error.response[1].error_message # <<>>
                    THEN error.response[1].error_message[1] ELSE "Unknown error"
         IN IF status = 401 \/ status = 403
            THEN Ok200(generateMockDistanceData(loc.origin, loc.destination),
                       "generateMockDistanceData")
            ELSE OuterCatch(Thrown("Error", "Google Maps API error: "
                                     \o ToString(status) \o " - " \o msg))
    ELSE IF error.request
    THEN Ok200(generateMockDistanceData(loc.origin, loc.destination),
               "generateMockDistanceData")
    ELSE OuterCatch(error)

\* (mutant) an HTTP failure other than 401 and 403 is passed on as it came
DistanceCatchRethrows(error, loc) ==
    IF error.response # <<>> /\ error.response[1].status \in {401, 403}
    THEN Ok200(generateMockDistanceData(loc.origin, loc.destination),
               "generateMockDistanceData")
    ELSE OuterCatch(error)

\* the inner catch (routes.ts:414-437) followed by the outer one
DistanceCatch(error, loc) ==
    IF error.response # <<>>
    THEN LET status == error.response[1].status
             msg == IF error.response[1].error_message # <<>>
                    THEN error.response[1].error_message[1] ELSE "Unknown error"
         IN IF status = 401 \/ status = 403
            THEN Ok200(generateMockDistanceData(loc.origin, loc.destination),
                       "generateMockDistanceData")
            ELSE OuterCatch(Thrown("Error", "Google Maps API error: "
                                     \o ToString(status) \o " - " \o msg))
    ELSE OuterCatch(error)

\* routes.ts:398-413 once the answer is in: the response sent
DistanceTry(data, loc) ==
    LET error == DistanceTryError(data) IN
    IF error = NoError THEN Ok200(ParsedDistance(data), "upstream")
    ELSE DistanceCatch(error, loc)

----------------------------------------------------------------------------
(* Requests *)

WeatherQueries ==
    [lat : Opt({"abc", "10"}), lng : Opt({"abc", "", "10", "-10", "Infinity"})]

DistanceQueries ==
    [origin : [lat : Opt({"abc", "0"}), lng : Opt({"0"})],
     destination : [lat : Opt({"0", "0.03", "-Infinity"}),
                    lng : Opt({"abc", "0.03", "1", "Infinity"})]]

NoQuery == [lat |-> <<>>, lng |-> <<>>]
NoCoords == [lat |-> NaN, lng |-> NaN]
NoAnswer == <<>>

----------------------------------------------------------------------------
(* The state machine *)

\* no request is being handled
Idle ==
    /\ route = "none"
    /\ pc = "idle"
    /\ query = NoQuery
    /\ coords = NoCoords
    /\ forecastCall = "none"
    /\ currentCall = "none"
    /\ matrixCall = "none"
    /\ allState = "none"
    /\ apiError = NoError
    /\ upstream = NoAnswer
    /\ calls = 0
    /\ responses = <<>>

NoInput == <<>>
NoOutput == <<>>

Init ==
    /\ WEATHER_API_KEY \in {EnvOrDefault(e) : e \in EnvValues}
    /\ GOOGLE_API_KEY \in {EnvOrDefault(e) : e \in EnvValues}
    /\ hostZone \in HostZones
    /\ Idle
    /\ input = NoInput
    /\ output = NoOutput

\* GET /api/weather arrives: the handler runs up to its await
WeatherRequest ==
    /\ pc = "idle"
    /\ route' = "/api/weather"
    /\ \E q \in WeatherQueries :
         LET error == WeatherGuard(q, WEATHER_API_KEY) IN
         /\ query' = q
         /\ IF error = NoError
            THEN /\ coords' = WeatherLocation(q)
                 /\ forecastCall' = "pending"
                 /\ currentCall' = "pending"
                 /\ allState' = "pending"
                 /\ calls' = calls + 2
                 /\ pc' = "weather_await"
                 /\ UNCHANGED responses
            ELSE /\ responses' = Append(responses, OuterCatch(error))
                 /\ pc' = "done"
                 /\ UNCHANGED <<coords, forecastCall, currentCall, allState, calls>>
    /\ UNCHANGED <<input, output, WEATHER_API_KEY, GOOGLE_API_KEY, hostZone, matrixCall, apiError,
                   upstream>>

\* (mutant) the promise of Promise.all is never fulfilled
AllAfterFulfilNever(other) == allState

\* Promise.all: fulfilled once both are, rejected with the first rejection
AllAfterFulfil(other) ==
    IF allState = "pending" /\ other = "fulfilled" THEN "fulfilled" ELSE allState

ForecastFulfils ==
    /\ forecastCall = "pending"
    /\ forecastCall' = "fulfilled"
    /\ allState' = AllAfterFulfil(currentCall)
    /\ UNCHANGED <<input, output, WEATHER_API_KEY, GOOGLE_API_KEY, hostZone, route, pc, query,
                   coords, upstream, currentCall, matrixCall, apiError, calls, responses>>

CurrentFulfils ==
    /\ currentCall = "pending"
    /\ currentCall' = "fulfilled"
    /\ allState' = AllAfterFulfil(forecastCall)
    /\ UNCHANGED <<input, output, WEATHER_API_KEY, GOOGLE_API_KEY, hostZone, route, pc, query,
                   coords, upstream, forecastCall, matrixCall, apiError, calls, responses>>

ForecastRejects ==
    /\ forecastCall = "pending"
    /\ forecastCall' = "rejected"
    /\ \E e \in WeatherRejections :
         IF allState = "pending"
         THEN allState' = "rejected" /\ apiError' = e
         ELSE UNCHANGED <<allState, apiError>>
    /\ UNCHANGED <<input, output, WEATHER_API_KEY, GOOGLE_API_KEY, hostZone, route, pc, query,
                   coords, upstream, currentCall, matrixCall, calls, responses>>

CurrentRejects ==
    /\ currentCall = "pending"
    /\ currentCall' = "rejected"
    /\ \E e \in WeatherRejections :
         IF allState = "pending"
         THEN allState' = "rejected" /\ apiError' = e
         ELSE UNCHANGED <<allState, apiError>>
    /\ UNCHANGED <<input, output, WEATHER_API_KEY, GOOGLE_API_KEY, hostZone, route, pc, query,
                   coords, upstream, forecastCall, matrixCall, calls, responses>>

\* the await of routes.ts:210 returns the two answers: lines 215-325, and the
\* inner catch when one of them throws
WeatherFulfilled ==
    /\ pc = "weather_await"
    /\ allState = "fulfilled"
    /\ \E forecastData \in ForecastPayloads, currentData \in CurrentPayloads,
          utcNow \in Instants :
         LET error == WeatherTryError(hostZone, forecastData, currentData, utcNow) IN
         /\ upstream' = [forecast |-> forecastData, current |-> currentData,
                         utcNow |-> utcNow]
         /\ IF error = NoError
            THEN responses' = Append(responses,
                                     WeatherTry(hostZone, forecastData, currentData,
                                                utcNow))
            ELSE \E rnd \in RandomDraws :
                   responses' = Append(responses, WeatherCatch(error, coords, rnd))
    /\ pc' = "done"
    /\ UNCHANGED <<input, output, WEATHER_API_KEY, GOOGLE_API_KEY, hostZone, route, query, coords,
                   forecastCall, currentCall, matrixCall, allState, apiError, calls>>

\* the await of routes.ts:210 throws: the inner catch
WeatherRejected ==
    /\ pc = "weather_await"
    /\ allState = "rejected"
    /\ \E rnd \in RandomDraws :
         responses' = Append(responses, WeatherCatch(apiError, coords, rnd))
    /\ pc' = "done"
    /\ UNCHANGED <<input, output, WEATHER_API_KEY, GOOGLE_API_KEY, hostZone, route, query, coords,
                   forecastCall, currentCall, matrixCall, allState, apiError,
                   upstream, calls>>

\* GET /api/distance arrives: the handler runs up to its await
DistanceRequest ==
    /\ pc = "idle"
    /\ route' = "/api/distance"
    /\ \E q \in DistanceQueries :
         LET error == DistanceGuard(q, GOOGLE_API_KEY) IN
         /\ query' = q
         /\ IF error = NoError
            THEN /\ coords' = DistanceLocations(q)
                 /\ matrixCall' = "pending"
                 /\ calls' = calls + 1
                 /\ pc' = "distance_await"
                 /\ UNCHANGED responses
            ELSE /\ responses' = Append(responses, OuterCatch(error))
                 /\ pc' = "done"
                 /\ UNCHANGED <<coords, matrixCall, calls>>
    /\ UNCHANGED <<input, output, WEATHER_API_KEY, GOOGLE_API_KEY, hostZone, forecastCall,
                   currentCall, allState, apiError, upstream>>

\* the await of routes.ts:397 returns a 2xx answer
DistanceFulfilled ==
    /\ pc = "distance_await"
    /\ matrixCall = "pending"
    /\ matrixCall' = "fulfilled"
    /\ \E data \in DistancePayloads :
         /\ upstream' = data
         /\ responses' = Append(responses, DistanceTry(data, coords))
    /\ pc' = "done"
    /\ UNCHANGED <<input, output, WEATHER_API_KEY, GOOGLE_API_KEY, hostZone, route, query, coords,
                   forecastCall, currentCall, allState, apiError, calls>>

\* (mutant) a failed routing call is tried once more before the catch runs
DistanceRejectedRetries ==
    /\ pc = "distance_await"
    /\ matrixCall = "pending"
    /\ \E e \in DistanceRejections :
         /\ apiError' = e
         /\ IF calls < 2
            THEN /\ calls' = calls + 1
                 /\ UNCHANGED <<matrixCall, responses, pc>>
            ELSE /\ matrixCall' = "rejected"
                 /\ responses' = Append(responses, DistanceCatch(e, coords))
                 /\ pc' = "done"
                 /\ UNCHANGED calls
    /\ UNCHANGED <<input, output, WEATHER_API_KEY, GOOGLE_API_KEY, hostZone, route,
                   query, coords, forecastCall, currentCall, allState, upstream>>

\* the await of routes.ts:397 throws
DistanceRejected ==
    /\ pc = "distance_await"
    /\ matrixCall = "pending"
    /\ matrixCall' = "rejected"
    /\ \E e \in DistanceRejections :
         /\ apiError' = e
         /\ responses' = Append(responses, DistanceCatch(e, coords))
    /\ pc' = "done"
    /\ UNCHANGED <<input, output, WEATHER_API_KEY, GOOGLE_API_KEY, hostZone, route, query, coords,
                   forecastCall, currentCall, allState, upstream, calls>>

\* the request is over; the process waits for the next one
NextRequest ==
    /\ pc = "done"
    /\ route' = "none"
    /\ pc' = "idle"
    /\ query' = NoQuery
    /\ coords' = NoCoords
    /\ forecastCall' = "none"
    /\ currentCall' = "none"
    /\ matrixCall' = "none"
    /\ allState' = "none"
    /\ apiError' = NoError
    /\ upstream' = NoAnswer
    /\ calls' = 0
    /\ responses' = <<>>
    /\ UNCHANGED <<input, output, WEATHER_API_KEY, GOOGLE_API_KEY, hostZone>>

Next ==
    \/ WeatherRequest
    \/ ForecastFulfils
    \/ CurrentFulfils
    \/ ForecastRejects
    \/ CurrentRejects
    \/ WeatherFulfilled
    \/ WeatherRejected
    \/ DistanceRequest
    \/ DistanceFulfilled
    \/ DistanceRejected
    \/ NextRequest

Spec == Init /\ [][Next]_vars

\* The weather handler leaves its await with both answers.  Under Next this
\* is the step WeatherFulfilled, which is enabled whenever the promise of
\* Promise.all is fulfilled; it is named by what it does to pc alone.
WeatherResumes ==
    /\ pc = "weather_await" /\ allState = "fulfilled"
    /\ pc' = "done"

\* Every upstream call that was issued is settled in the end, and a handler
\* whose awaited promise is settled is resumed by the event loop.
UpstreamSettles ==
    /\ WF_vars(ForecastFulfils \/ ForecastRejects)
    /\ WF_vars(CurrentFulfils \/ CurrentRejects)
    /\ WF_vars(DistanceFulfilled \/ DistanceRejected)
    /\ WF_pc(WeatherResumes)
    /\ WF_vars(WeatherRejected)

SpecLive == Init /\ [][Next]_vars /\ UpstreamSettles

----------------------------------------------------------------------------
(* The assembly of routes.ts:218-325 on forecast lists of one or two days *)

\* the most samples of the lists the assembly is studied on
MaxDaySamples == 4

\* a second description under the icon of LightRain
ModerateRain == [id |-> 501, icon |-> "10d", description |-> "moderate rain"]

\* samples of the reference day (hour 62) and of the day after (hour 86)
DaySamples ==
    [dt : {62, 86}, temp : {Num(6012)},
     weather : {<<c>> : c \in {ClearSky, LightRain, ModerateRain}}]

DayLists == UNION {[1..n -> DaySamples] : n \in 0..MaxDaySamples}

InitDay ==
    /\ WEATHER_API_KEY = "live-key"
    /\ GOOGLE_API_KEY = "live-key"
    /\ hostZone = Utc
    /\ Idle
    /\ \E list \in DayLists :
         input = [fn |-> "assemble",
                  forecast |-> [list |-> <<list>>],
                  current |-> CurrentData(<<>>, <<[temp |-> Num(6834)]>>, <<LightRain>>),
                  utcNow |-> 50]
    /\ output = NoOutput

\* lines 218-325 run on the two answers
Assemble ==
    /\ input # NoInput /\ input.fn = "assemble"
    /\ output = NoOutput
    /\ WeatherTryError(hostZone, input.forecast, input.current, input.utcNow) = NoError
    /\ output' = WeatherTry(hostZone, input.forecast, input.current, input.utcNow)
    /\ UNCHANGED <<input, WEATHER_API_KEY, GOOGLE_API_KEY, hostZone, route, pc, query,
                   coords, forecastCall, currentCall, matrixCall, allState, apiError,
                   upstream, calls, responses>>

NextDay == Assemble

SpecDay == InitDay /\ [][NextDay]_vars

----------------------------------------------------------------------------
(* signGoogleMapsUrl (routes.ts:17-50) *)

\* Strings that are taken apart are sequences: a URL is the sequence of its
\* parts (origin, path, the parameters each with its separator, "&key=" and
\* the key), a base64 text is the sequence of its characters.
UrlOrigin == "https://maps.googleapis.com"
UrlPath == "/maps/api/distancematrix/json"

\* the URL of routes.ts:390
BaseUrl(origins, destinations, key) ==
    <<UrlOrigin, UrlPath, "?origins=" \o origins, "&destinations=" \o destinations,
      "&key=", key>>

\* url.split('&key=')[0]: what precedes the first "&key="
SplitAtKey(url) ==
    IF \E i \in 1..Len(url) : url[i] = "&key="
    THEN SubSeq(url, 1, (CHOOSE i \in 1..Len(url) :
                           url[i] = "&key=" /\ \A j \in 1..(i - 1) : url[j] # "&key=") - 1)
    ELSE url

\* urlToSign.pathname + urlToSign.search
PathWithQuery(url) == Tail(url)

\* text.replace(/c/g, by)
ReplaceAll(text, c, by) ==
    [i \in 1..Len(text) |-> IF text[i] = c THEN by ELSE text[i]]

\* text.replace(/c/, by): the first occurrence only
ReplaceFirst(text, c, by) ==
    [i \in 1..Len(text) |->
       IF text[i] = c /\ \A j \in 1..(i - 1) : text[j] # c THEN by ELSE text[i]]

RECURSIVE StripTrailingEquals(_)
\* text.replace(/=+$/, '')
StripTrailingEquals(text) ==
    IF Len(text) > 0 /\ text[Len(text)] = "="
    THEN StripTrailingEquals(SubSeq(text, 1, Len(text) - 1))
    ELSE text

\* (mutant) the patterns lack the g flag
SafeSignatureFirstOnly(encodedSignature) ==
    StripTrailingEquals(ReplaceFirst(ReplaceFirst(encodedSignature, "+", "-"), "/", "_"))

\* routes.ts:39-42
SafeSignature(encodedSignature) ==
    StripTrailingEquals(ReplaceAll(ReplaceAll(encodedSignature, "+", "-"), "/", "_"))

\* The value returned, as the URL given and the signature appended to it
\* (none without a secret), with what was handed to HmacSHA1.  The digest
\* itself is not computed: encodedSignature stands for its base64 text.
signGoogleMapsUrl(url, secret, encodedSignature) ==
    IF secret = ""
    THEN [url |-> url, signature |-> <<>>, pathWithQuery |-> <<>>,
          encodedSignature |-> <<>>]
    ELSE [url |-> url,
          signature |-> <<SafeSignature(encodedSignature)>>,
          pathWithQuery |-> <<PathWithQuery(SplitAtKey(url))>>,
          encodedSignature |-> <<encodedSignature>>]

----------------------------------------------------------------------------
(* The synthesizers and the URL signing, called on their own *)

\* the most calls of generateMockWeatherData made with the same coordinates
MaxMockCalls == 2

\* the step, in metres, of the adjusted distances the speed tiers are tried on
GridStep == 250
GridPoints == 100

\* the most characters of a base64 text before its padding
MaxDigestChars == 3

\* base64 texts: characters, then 0 to 2 "=" of padding
Base64Texts ==
    {body \o pad :
       body \in UNION {[1..n -> {"A", "+", "/"}] : n \in 1..MaxDigestChars},
       pad \in {<<>>, <<"=">>, <<"=", "=">>}}

SigningSecrets == {"", "c2VjcmV0"}

SignedUrls ==
    {BaseUrl(o, d, "live-key") : o \in {"0,0", "NaN,0"}, d \in {"0,1", "0,0.03"}}

MockCoordinates == {Num(0), Num(10000), Num(-10000), PosInfinity}

\* adjusted distances: a grid, the two sides of each tier limit, and the
\* distance of (0,0) -> (0,1)
AdjustedDistances ==
    {Num(n * GridStep) : n \in 0..GridPoints}
      \cup {Num(4999), Num(5001), Num(19999), Num(20001), Num(144553)}

\* the origin (0, 0) and the destinations up to one degree away from it
MockOrigin == [lat |-> Num(0), lng |-> Num(0)]
MockDestinations == [lat : {Num(0), Num(30), Num(1000)}, lng : {Num(0), Num(30), Num(1000)}]

\* coordinates at which the oscillation is +10, -10, +5 and -5 degrees
MockExtremes ==
    [lat : {Num(157080), Num(52360)}, lng : {Num(1000), Num(-1000)}]

FunctionInputs ==
    [fn : {"generateMockWeatherData"}, lat : MockCoordinates, lng : MockCoordinates]
      \cup {[fn |-> "generateMockWeatherData", lat |-> c.lat, lng |-> c.lng] :
              c \in MockExtremes}
      \cup [fn : {"travelTime"}, adjustedDistance : AdjustedDistances]
      \cup [fn : {"signGoogleMapsUrl"}, url : SignedUrls, secret : SigningSecrets]
      \cup [fn : {"generateMockDistanceData"}, origin : {MockOrigin},
            first : MockDestinations, second : MockDestinations]

InitFunctions ==
    /\ WEATHER_API_KEY = "live-key"
    /\ GOOGLE_API_KEY = "live-key"
    /\ hostZone = Utc
    /\ Idle
    /\ input \in FunctionInputs
    /\ output = NoOutput

\* one more call of generateMockWeatherData(lat, lng); output lists the
\* values returned so far
MockWeatherCall ==
    /\ input.fn = "generateMockWeatherData"
    /\ Len(output) < MaxMockCalls
    /\ \E rnd \in RandomDraws :
         output' = Append(output, generateMockWeatherData(input.lat, input.lng, rnd))
    /\ UNCHANGED <<input, WEATHER_API_KEY, GOOGLE_API_KEY, hostZone, route, pc, query,
                   coords, forecastCall, currentCall, matrixCall, allState, apiError,
                   upstream, calls, responses>>

\* routes.ts:141-167 run on an adjusted distance
MockTravelTime ==
    /\ input.fn = "travelTime"
    /\ output = NoOutput
    /\ output' = [averageSpeed |-> AverageSpeed(input.adjustedDistance),
                  travelTimeMinutes |-> TravelTimeMinutes(input.adjustedDistance),
                  travelTimeText |->
                    TravelTimeText(TravelTimeMinutes(input.adjustedDistance))]
    /\ UNCHANGED <<input, WEATHER_API_KEY, GOOGLE_API_KEY, hostZone, route, pc, query,
                   coords, forecastCall, currentCall, matrixCall, allState, apiError,
                   upstream, calls, responses>>

\* signGoogleMapsUrl(url) with GOOGLE_MAPS_SIGNING_SECRET = input.secret
SignUrl ==
    /\ input.fn = "signGoogleMapsUrl"
    /\ output = NoOutput
    /\ \E encodedSignature \in Base64Texts :
         output' = signGoogleMapsUrl(input.url, input.secret, encodedSignature)
    /\ UNCHANGED <<input, WEATHER_API_KEY, GOOGLE_API_KEY, hostZone, route, pc, query,
                   coords, forecastCall, currentCall, matrixCall, allState, apiError,
                   upstream, calls, responses>>

\* generateMockDistanceData called for two destinations from one origin
MockDistancePair ==
    /\ input.fn = "generateMockDistanceData"
    /\ output = NoOutput
    /\ output' = [first |-> generateMockDistanceData(input.origin, input.first),
                  second |-> generateMockDistanceData(input.origin, input.second)]
    /\ UNCHANGED <<input, WEATHER_API_KEY, GOOGLE_API_KEY, hostZone, route, pc, query,
                   coords, forecastCall, currentCall, matrixCall, allState, apiError,
                   upstream, calls, responses>>

NextFunctions ==
    \/ MockWeatherCall
    \/ MockTravelTime
    \/ SignUrl
    \/ MockDistancePair

SpecFunctions == InitFunctions /\ [][NextFunctions]_vars

----------------------------------------------------------------------------
(* What the claims speak of *)

Weather200(r) == r.status = 200 /\ route = "/api/weather"
Distance200(r) == r.status = 200 /\ route = "/api/distance"
Sent == {responses[i] : i \in 1..Len(responses)}
FromUpstream(r) == r.by = "upstream"
Synthesized(r) == r.by \in {"generateMockWeatherData", "generateMockDistanceData"}

\* the offset the current-conditions answer carries, 0 when it carries none
UpstreamOffset == IF upstream.current.timezone = <<>> THEN 0
                  ELSE upstream.current.timezone[1]

\* the calendar day at the queried location of the instant t
LocalDay(t) == (t + UpstreamOffset) \div HoursPerDay

\* the temperatures of the samples whose local day is k days after today
TempsOfDay(k) ==
    LET list == IF upstream.forecast.list = <<>> THEN <<>>
                ELSE upstream.forecast.list[1]
    IN {list[i].temp.v : i \in {j \in 1..Len(list) :
                                  /\ list[j].temp.t = "num"
                                  /\ LocalDay(list[j].dt) = LocalDay(upstream.utcNow) + k}}

SetMin(S) == CHOOSE x \in S : \A y \in S : x <= y
SetMax(S) == CHOOSE x \in S : \A y \in S : x >= y

\* C1: every 200 response of GET /api/weather, from the upstream or
\* synthesized, has exactly 4 daily entries, each with temp.min <= temp.max.
C1_DailyFourMinLeMax ==
    \A r \in Sent : Weather200(r) =>
      /\ Len(r.body.daily) = 4
      /\ \A k \in 1..Len(r.body.daily) :
           JsLe(r.body.daily[k].temp.min, r.body.daily[k].temp.max)

\* the value is missing, or Number() of it is NaN
NotNumeric(v) == JsNumber(v) = NaN

\* C2: once a forecast or current-conditions call has rejected, whatever the
\* reason, the weather handler's response is a 200 carrying isMockData: true;
\* it answers neither 400 nor anything else.
C2_RejectionGivesMock200 ==
    route = "/api/weather" /\ "rejected" \in {forecastCall, currentCall} =>
      /\ pc = "done" => Len(responses) = 1
      /\ \A r \in Sent : r.status = 200 /\ r.body.isMockData = <<TRUE>>

C2_Witness ==
    /\ route = "/api/weather" /\ pc = "done"
    /\ currentCall = "rejected" /\ forecastCall = "pending"
    /\ apiError = NoResponse
    /\ Len(responses) = 1
    /\ responses[1].status = 200 /\ responses[1].body.isMockData = <<TRUE>>

C4_DistanceValidationFirst ==
    /\ route = "/api/distance"
    /\ GOOGLE_API_KEY = "live-key"
    /\ \E v \in {query.origin.lat, query.origin.lng,
                 query.destination.lat, query.destination.lng} : NotNumeric(v)
    => /\ pc = "done"
       /\ Len(responses) = 1
       /\ responses[1].status = 400
       /\ responses[1].body.error = "Invalid coordinates format"
       /\ calls = 0

\* the first element of the first row of the routing answer, if there is one
HasFirstElement ==
    /\ upstream.rows # <<>>
    /\ Len(upstream.rows[1]) > 0
    /\ Len(upstream.rows[1][1].elements) > 0
FirstElement == upstream.rows[1][1].elements[1]

\* C5: when the routing upstream answered 2xx with top-level status OK and
\* the first element is not OK or has no duration, the response is a 400
\* whose error is the element's error_message, or the fixed text when there
\* is none; it is never mock data.
C5_ElementFailureIs400 ==
    /\ route = "/api/distance" /\ matrixCall = "fulfilled"
    /\ upstream.status = "OK" /\ HasFirstElement
    /\ (FirstElement.status # "OK" \/ FirstElement.duration = <<>>)
    => /\ Len(responses) = 1
       /\ responses[1].status = 400
       /\ responses[1].body.error =
            IF FirstElement.error_message # <<>> THEN FirstElement.error_message[1]
            ELSE "Could not calculate travel time"
       /\ ~Synthesized(responses[1])

C5_Witness ==
    /\ route = "/api/distance" /\ matrixCall = "fulfilled"
    /\ upstream.status = "OK" /\ HasFirstElement
    /\ FirstElement = ElementZero
    /\ responses = <<Err400("Could not calculate travel time")>>

\* C6: when the routing call failed with HTTP 401 or 403, the response is a
\* 200 carrying isMockData: true whose single element is the estimate for
\* the request's origin and destination (for (0,0) -> (0,1): 87 minutes).
C6_KeyFailureGivesMock200 ==
    /\ route = "/api/distance" /\ matrixCall = "rejected"
    /\ apiError.response # <<>>
    /\ apiError.response[1].status \in {401, 403}
    => /\ Len(responses) = 1
       /\ responses[1].status = 200
       /\ responses[1].body.isMockData = <<TRUE>>
       /\ responses[1].body.rows =
            generateMockDistanceData(DistanceLocations(query).origin,
                                     DistanceLocations(query).destination).rows
       /\ (query = [origin |-> [lat |-> <<"0">>, lng |-> <<"0">>],
                    destination |-> [lat |-> <<"0">>, lng |-> <<"1">>]]
           => responses[1].body.rows[1].elements[1].duration =
                <<[text |-> "1 hour 27 mins", value |-> Num(5220)]>>)

C6_Witness ==
    /\ route = "/api/distance" /\ matrixCall = "rejected"
    /\ apiError.response # <<>>
    /\ apiError.response[1].status = 403
    /\ query = [origin |-> [lat |-> <<"0">>, lng |-> <<"0">>],
                destination |-> [lat |-> <<"0">>, lng |-> <<"1">>]]
    /\ Len(responses) = 1
    /\ responses[1].status = 200
    /\ responses[1].body.isMockData = <<TRUE>>
    /\ responses[1].body.rows[1].elements[1].duration[1].value = Num(5220)

\* C7: each request gets exactly one response, sent when the handler ends;
\* it is a 200 with a payload or a 400 whose body has an error string.
C7_OneResponse200Or400 ==
    /\ Len(responses) <= 1
    /\ pc = "done" => Len(responses) = 1
    /\ pc \in {"idle", "weather_await", "distance_await"} => Len(responses) = 0
    /\ \A r \in Sent :
         \/ /\ r.status = 200
            /\ \/ route = "/api/weather" /\ {"current", "daily"} \subseteq DOMAIN r.body
               \/ route = "/api/distance" /\ "rows" \in DOMAIN r.body
         \/ /\ r.status = 400
            /\ DOMAIN r.body = {"error"}
            /\ r.body.error \in STRING

C7_Witness ==
    /\ route = "/api/distance" /\ pc = "done"
    /\ matrixCall = "rejected" /\ apiError = NoResponse
    /\ Len(responses) = 1
    /\ responses[1].status = 400
    /\ responses[1].body.error = "Network Error"

C9_MockFlagIffSynthesized ==
    \A r \in Sent : r.status = 200 =>
      /\ r.body.isMockData = <<TRUE>> <=> Synthesized(r)
      /\ FromUpstream(r) => r.body.isMockData = <<>>

C9_Witness ==
    /\ route = "/api/distance" /\ pc = "done" /\ matrixCall = "fulfilled"
    /\ upstream.isMockData = <<TRUE>>
    /\ Len(responses) = 1
    /\ responses[1].status = 200
    /\ FromUpstream(responses[1])
    /\ responses[1].body.isMockData = <<>>

\* C10: in a response built from the upstream's answers, daily[k+1] is the
\* bucket of the location's local day today + k (k = 0..3), whatever the
\* time zone of the host: it holds the rounded extremes of the samples of
\* that local day, and the back-fill when that day has no sample.
C10_BucketsAreLocalDays ==
    \A r \in Sent : Weather200(r) /\ FromUpstream(r) =>
      /\ Len(r.body.daily) = 4
      /\ \A k \in 0..3 : k + 1 <= Len(r.body.daily) =>
           IF TempsOfDay(k) = {}
           THEN r.body.daily[k + 1].temp =
                  [min |-> MathRound1(JsAdd(upstream.current.main[1].temp, -500)),
                   max |-> MathRound1(JsAdd(upstream.current.main[1].temp, 500))]
           ELSE r.body.daily[k + 1].temp =
                  [min |-> MathRound1(Num(SetMin(TempsOfDay(k)))),
                   max |-> MathRound1(Num(SetMax(TempsOfDay(k))))]

\* the samples of the list given to the assembly that fall on day today + k
SamplesOfDay(k) ==
    SelectSeq(input.forecast.list[1],
              LAMBDA s : DateStr(s.dt) = DateStr(input.utcNow) + k)

IconOf(S, i) == S[i].weather[1].icon
IconsOf(S) == {IconOf(S, i) : i \in 1..Len(S)}
Occurrences(S, icon) == Cardinality({i \in 1..Len(S) : IconOf(S, i) = icon})
FirstOccurrence(S, icon) ==
    CHOOSE i \in 1..Len(S) :
      IconOf(S, i) = icon /\ \A j \in 1..(i - 1) : IconOf(S, j) # icon

\* the icon seen most often in S; of several seen equally often, the one
\* that occurs first
LeadingIcon(S) ==
    CHOOSE c \in IconsOf(S) : \A d \in IconsOf(S) \ {c} :
      \/ Occurrences(S, c) > Occurrences(S, d)
      \/ /\ Occurrences(S, c) = Occurrences(S, d)
         /\ FirstOccurrence(S, c) < FirstOccurrence(S, d)

C12_OtherStatusIs400WithStatus ==
    /\ route = "/api/distance" /\ matrixCall = "rejected"
    /\ apiError.response # <<>>
    /\ apiError.response[1].status \notin {401, 403}
    => /\ Len(responses) = 1
       /\ responses[1].status = 400
       /\ responses[1].body.error =
            "Google Maps API error: " \o ToString(apiError.response[1].status) \o " - "
              \o (IF apiError.response[1].error_message = <<>> THEN "Unknown error"
                  ELSE apiError.response[1].error_message[1])
       /\ ~Synthesized(responses[1])
       /\ "isMockData" \notin DOMAIN responses[1].body

C12_Witness ==
    /\ route = "/api/distance" /\ matrixCall = "rejected"
    /\ apiError = HttpError(429, <<>>)
    /\ responses = <<Err400("Google Maps API error: 429 - Unknown error")>>

\* C13: every 200 response of GET /api/distance has exactly one row, and
\* that row exactly one element, whatever rows the upstream's answer had.
C13_OneRowOneElement ==
    \A r \in Sent : Distance200(r) =>
      /\ Len(r.body.rows) = 1
      /\ Len(r.body.rows[1].elements) = 1

\* C14: every 200 response of GET /api/weather has at least one condition
\* entry in current.weather and in the weather list of each daily entry,
\* back-filled days included.
C14_ConditionListsNonEmpty ==
    \A r \in Sent : Weather200(r) =>
      /\ Len(r.body.current.weather) >= 1
      /\ \A k \in 1..Len(r.body.daily) : Len(r.body.daily[k].weather) >= 1

\* the value is missing, or Number() of it is NaN, +Infinity or -Infinity
NotFinite(v) == JsNumber(v).t # "num"

\* C15: on both endpoints a request with a coordinate that is missing or
\* coerces to NaN, +Infinity or -Infinity is answered 400 without any
\* upstream call: only finite numbers pass for coordinates.
C15_OnlyFiniteCoordinates ==
    /\ (route = "/api/weather" /\ (NotFinite(query.lat) \/ NotFinite(query.lng)))
       => /\ pc = "done"
          /\ Len(responses) = 1 /\ responses[1].status = 400
          /\ calls = 0
    /\ (/\ route = "/api/distance"
        /\ \E v \in {query.origin.lat, query.origin.lng,
                     query.destination.lat, query.destination.lng} : NotFinite(v))
       => /\ pc = "done"
          /\ Len(responses) = 1 /\ responses[1].status = 400
          /\ calls = 0

\* C16: the values generateMockWeatherData returned for the same (lat, lng)
\* agree on current.temp, on the current icon and description and on the icon
\* and description of each of the 4 daily entries; they may differ in the
\* daily min and max only.
C16_MockCurrentDeterministic ==
    input # NoInput /\ input.fn = "generateMockWeatherData" =>
      \A i, j \in 1..Len(output) :
        /\ output[i].current = output[j].current
        /\ Len(output[i].daily) = 4
        /\ \A k \in 1..4 : output[i].daily[k].weather = output[j].daily[k].weather
        /\ DOMAIN output[i] = {"current", "daily", "isMockData"}
        /\ \A k \in 1..4 : DOMAIN output[i].daily[k] = {"temp", "weather"}

C16_Witness ==
    /\ input # NoInput /\ input.fn = "generateMockWeatherData"
    /\ input.lat = Num(10000) /\ input.lng = Num(10000)
    /\ Len(output) = 2
    /\ output[1].daily # output[2].daily
    /\ output[1].current = output[2].current
    /\ output[1].current.temp = Num(2840)

\* C17: the speed is 30 km/h for an adjusted distance below 5 km, 60 km/h
\* from 5 km to below 20 km and 100 km/h from 20 km; in that last tier the
\* minutes are round(adjusted / 100 * 60) and strictly positive.
C17_SpeedTiersAndPositiveTime ==
    input # NoInput /\ input.fn = "travelTime" /\ output # NoOutput =>
      LET d == input.adjustedDistance.v
          m == output.travelTimeMinutes.v
      IN /\ d < 5000 => output.averageSpeed = 30
         /\ d >= 5000 /\ d < 20000 => output.averageSpeed = 60
         /\ d >= 20000 =>
              /\ output.averageSpeed = 100
              /\ output.travelTimeMinutes.t = "num"
              /\ m > 0
              /\ (2 * m - 1) * 100000 <= 2 * d * 60
              /\ 2 * d * 60 < (2 * m + 1) * 100000

C17_Witness ==
    /\ input # NoInput /\ input.fn = "travelTime" /\ output # NoOutput
    /\ input.adjustedDistance = Num(144553)
    /\ output.averageSpeed = 100
    /\ output.travelTimeMinutes = Num(87)

\* C18: with a signing secret the signature appended is the base64 text of
\* the digest with each '+' turned into '-', each '/' into '_' and the
\* trailing '=' dropped, so it has no '+', no '/' and no '=' at its end; what
\* was signed is the path and query of the URL up to the key parameter.
C18_SignatureUrlSafe ==
    /\ input # NoInput /\ input.fn = "signGoogleMapsUrl"
    /\ output # NoOutput /\ input.secret # ""
    => /\ output.signature # <<>>
       /\ LET sig == output.signature[1]
              enc == output.encodedSignature[1]
          IN /\ Len(sig) <= Len(enc)
             /\ \A i \in 1..Len(sig) :
                  sig[i] = CASE enc[i] = "+" -> "-"
                             [] enc[i] = "/" -> "_"
                             [] OTHER -> enc[i]
             /\ \A i \in (Len(sig) + 1)..Len(enc) : enc[i] = "="
             /\ \A i \in 1..Len(sig) : sig[i] \notin {"+", "/"}
             /\ Len(sig) > 0 => sig[Len(sig)] # "="
       /\ output.pathWithQuery = <<SubSeq(input.url, 2, 4)>>
       /\ \A i \in 1..Len(output.pathWithQuery[1]) :
            output.pathWithQuery[1][i] \notin {UrlOrigin, "&key=", "live-key"}
       /\ output.url = input.url

C18_Witness ==
    /\ input # NoInput /\ input.fn = "signGoogleMapsUrl"
    /\ output # NoOutput /\ input.secret = "c2VjcmV0"
    /\ output.encodedSignature = <<<<"+", "/", "+", "=">>>>
    /\ output.signature = <<<<"-", "_", "-">>>>
    /\ output.pathWithQuery =
         <<<<UrlPath, "?origins=0,0", "&destinations=0,1">>>>

\* the two answers are in and the value assembled from them is not a
\* WeatherSnapshot: the current answer has no main, or no numeric main.temp
AssemblyFails ==
    /\ route = "/api/weather" /\ pc = "done" /\ allState = "fulfilled"
    /\ \/ upstream.current.main = <<>>
       \/ ~ZNumber(upstream.current.main[1].temp)

\* C19: when both upstream calls succeeded and the assembled value fails the
\* schema, or assembling it fails on a malformed answer, the handler reports
\* an error: it does not answer with a successful payload.
C19_AssemblyFailureIsError ==
    AssemblyFails =>
      /\ Len(responses) = 1
      /\ responses[1].status # 200
      /\ ~Synthesized(responses[1])

\* C20: both calls are issued before the handler awaits, and no response is
\* sent while one of them is still pending, also after the other rejected.
C20_NoResponseBeforeBothComplete ==
    route = "/api/weather" =>
      /\ pc = "weather_await" => forecastCall # "none" /\ currentCall # "none"
      /\ (forecastCall # "none" \/ currentCall # "none") => calls = 2
      /\ Len(responses) > 0 /\ calls = 2 =>
           forecastCall # "pending" /\ currentCall # "pending"

\* C21: no second attempt.  One weather request issues the forecast call and
\* the current-conditions call once, together (2 calls in all); one distance
\* request issues at most one routing call; after a failure no call is added.
C21_NoSecondAttempt ==
    /\ route = "none" => calls = 0
    /\ route = "/api/weather" =>
         /\ calls \in {0, 2}
         /\ calls = 2 <=> forecastCall # "none" /\ currentCall # "none"
         /\ calls = 0 <=> forecastCall = "none" /\ currentCall = "none"
    /\ route = "/api/distance" =>
         /\ calls \in {0, 1}
         /\ calls = 1 <=> matrixCall # "none"

C21_Witness ==
    /\ route = "/api/distance" /\ pc = "done"
    /\ matrixCall = "rejected" /\ apiError = HttpError(500, <<"Internal error">>)
    /\ calls = 1
    /\ Len(responses) = 1 /\ responses[1].status = 400

\* the samples of the forecast answer whose local day is k days after today
SamplesOfLocalDay(k) ==
    LET list == IF upstream.forecast.list = <<>> THEN <<>>
                ELSE upstream.forecast.list[1]
    IN {list[i] : i \in {j \in 1..Len(list) :
                           LocalDay(list[j].dt) = LocalDay(upstream.utcNow) + k}}

\* C22: in a response built from the upstream's answers (host in UTC, where
\* the buckets are the location's days), a day that received no sample has
\* min = current - 5, max = current + 5, rounded, and the current conditions
\* as its weather; a day that received a sample keeps a minimum that is the
\* rounded temperature of one of its samples.
C22_BackfillOnlyEmptyDays ==
    \A r \in Sent : Weather200(r) /\ FromUpstream(r) /\ hostZone = Utc =>
      \A k \in 0..3 :
        IF SamplesOfLocalDay(k) = {}
        THEN /\ r.body.daily[k + 1].temp =
                  [min |-> MathRound1(JsAdd(upstream.current.main[1].temp, -500)),
                   max |-> MathRound1(JsAdd(upstream.current.main[1].temp, 500))]
             /\ r.body.daily[k + 1].weather = StripWeatherList(upstream.current.weather)
        ELSE \E item \in SamplesOfLocalDay(k) :
               r.body.daily[k + 1].temp.min = MathRound1(item.temp)

\* C23: a distance request with a coordinate missing gets the 400 validation
\* error whether or not the routing credential is configured.
C23_DistanceValidatesBeforeKey ==
    /\ route = "/api/distance"
    /\ \E v \in {query.origin.lat, query.origin.lng,
                 query.destination.lat, query.destination.lng} : v = <<>>
    => /\ pc = "done"
       /\ Len(responses) = 1
       /\ responses[1].status = 400
       /\ responses[1].body.error = "Invalid coordinates format"
       /\ calls = 0

\* C24: provided every upstream call issued is settled in the end, a
\* request that waits on its calls gets its response in the end; a request
\* that issued no call (validation or credential failed) has its response
\* at once, without any wait.
C24_EveryRequestAnswered ==
    /\ [](pc \in {"weather_await", "distance_await"} =>
            <>(pc = "done" /\ Len(responses) = 1))
    /\ [](route # "none" /\ calls = 0 => pc = "done" /\ Len(responses) = 1)

C24_Witness ==
    /\ route = "/api/weather" /\ pc = "done"
    /\ forecastCall = "fulfilled" /\ currentCall = "fulfilled"
    /\ Len(responses) = 1 /\ responses[1].status = 200
    /\ FromUpstream(responses[1])

\* the condition the thresholds give for a current temperature
ConditionOf(temp) ==
    IF temp.v < 1500 THEN [icon |-> "03d", description |-> "clouds"]
    ELSE IF temp.v > 2500 THEN [icon |-> "01d", description |-> "clear"]
    ELSE [icon |-> "02d", description |-> "few clouds"]

\* a synthetic weather payload: the temperature is a number from 10 to 30,
\* the condition is the one its thresholds give, and every daily entry has
\* min < max
InBandWithCondition(body) ==
    /\ body.current.temp.t = "num"
    /\ body.current.temp.v >= 1000 /\ body.current.temp.v <= 3000
    /\ body.current.weather = <<ConditionOf(body.current.temp)>>
    /\ \A k \in 1..Len(body.daily) :
         /\ body.daily[k].weather = <<ConditionOf(body.current.temp)>>
         /\ JsLt(body.daily[k].temp.min, body.daily[k].temp.max)

\* C25: every synthetic weather payload sent has its current temperature in
\* the band 10 to 30, its condition given by the thresholds 15 and 25 (both
\* inclusive for few clouds), and min < max in every daily entry.
C25_MockTempBandAndCondition ==
    \A r \in Sent : Weather200(r) /\ Synthesized(r) => InBandWithCondition(r.body)

RECURSIVE MinutesText(_)
\* "m mins", "H hour(s)" or "H hour(s) M mins" for m minutes
MinutesText(m) ==
    IF m < 60 THEN ToString(m) \o " mins"
    ELSE ToString(m \div 60) \o (IF m \div 60 = 1 THEN " hour" ELSE " hours")
           \o (IF m % 60 = 0 THEN "" ELSE " " \o MinutesText(m % 60))

\* C26: in every mock distance result sent, value is 60 times a number of
\* minutes m and the text is the wording of m: "m mins" below 60, else
\* "H hour"/"H hours" followed by " M mins" exactly when M is not 0.
C26_MockTextMatchesValue ==
    \A r \in Sent : Distance200(r) /\ Synthesized(r) =>
      LET duration == r.body.rows[1].elements[1].duration[1] IN
      /\ duration.value.t = "num"
      /\ duration.value.v >= 0
      /\ duration.value.v % 60 = 0
      /\ duration.text = MinutesText(duration.value.v \div 60)

\* C27: every 200 response of GET /api/distance, from the upstream or
\* synthesized, has a first row whose first element has status "OK" and a
\* duration.
C27_Sent200HasOkElement ==
    \A r \in Sent : Distance200(r) =>
      /\ Len(r.body.rows) >= 1
      /\ Len(r.body.rows[1].elements) >= 1
      /\ r.body.rows[1].elements[1].status = "OK"
      /\ r.body.rows[1].elements[1].duration # <<>>

C27_Witness ==
    /\ route = "/api/distance" /\ pc = "done" /\ matrixCall = "fulfilled"
    /\ upstream.status = "OK"
    /\ upstream.rows = <<<<[elements |-> <<ElementOk, ElementZero>>]>>>>
    /\ Len(responses) = 1 /\ responses[1].status = 200
    /\ responses[1].body.rows[1].elements[1].duration =
         <<Duration("1 hour 30 mins", 5400)>>

\* C28: the distance handler sends a synthesized result only after the
\* routing call failed with HTTP 401 or 403.  A failure without a response,
\* any other HTTP status, a 2xx answer whose status is not "OK", a first
\* element that is not OK, and an answer the schema rejects all get a 400.
C28_MockOnlyOn401Or403 ==
    route = "/api/distance" =>
      /\ \A r \in Sent :
           (Synthesized(r) \/ (r.status = 200 /\ r.body.isMockData = <<TRUE>>))
           => /\ matrixCall = "rejected"
              /\ apiError.response # <<>>
              /\ apiError.response[1].status \in {401, 403}
      /\ (/\ matrixCall = "rejected"
          /\ \/ apiError.response = <<>>
             \/ apiError.response[1].status \notin {401, 403})
         => Len(responses) = 1 /\ responses[1].status = 400
      /\ (/\ matrixCall = "fulfilled"
          /\ \/ upstream.status # "OK"
             \/ upstream.rows = <<>>
             \/ (HasFirstElement /\ FirstElement.status # "OK"))
         => Len(responses) = 1 /\ responses[1].status = 400

C28_Witness ==
    /\ route = "/api/distance" /\ pc = "done" /\ matrixCall = "fulfilled"
    /\ upstream.status = "REQUEST_DENIED"
    /\ responses = <<Err400("Distance Matrix API error: REQUEST_DENIED")>>

\* the coordinates of the request are valid: each is there and is a finite
\* number
CoordinatesValid ==
    \/ route = "/api/weather" /\ ~NotFinite(query.lat) /\ ~NotFinite(query.lng)
    \/ /\ route = "/api/distance"
       /\ \A v \in {query.origin.lat, query.origin.lng,
                    query.destination.lat, query.destination.lng} : ~NotFinite(v)

\* C29: a request whose coordinates are valid never gets the error
\* "Invalid coordinates format", whatever the upstream answers.
C29_CoordinateErrorOnlyForCoordinates ==
    route # "none" /\ CoordinatesValid =>
      \A r \in Sent : r.status = 400 => r.body.error # "Invalid coordinates format"

\* C30: of two mock estimates, the one for the shorter (or equal)
\* road-adjusted distance has the smaller (or equal) duration.value.
C30_MockTimeMonotone ==
    input # NoInput /\ input.fn = "generateMockDistanceData" /\ output # NoOutput =>
      (JsLe(AdjustedDistance(input.origin, input.first),
            AdjustedDistance(input.origin, input.second))
       => JsLe(output.first.rows[1].elements[1].duration[1].value,
               output.second.rows[1].elements[1].duration[1].value))

====
